---------------------------- MODULE Spec2Model ----------------------------
(***************************************************************************)
(* A model of fetch_data.py: the alignment of the fetched daily series on  *)
(* the Bitcoin price's date axis (align_data, find_nearest_value), the     *)
(* rolling put/call history (update_pcr_history) and a run of main over    *)
(* the snapshot file data.json.                                            *)
(*                                                                         *)
(* Data representation.                                                    *)
(*   - A date string 'YYYY-MM-DD' is the tuple <<y, m, d>>: the format is  *)
(*     fixed-width and zero-padded, so Python's string order is the        *)
(*     lexicographic order of the tuple (StrLess).                         *)
(*   - A point in time is its proleptic Gregorian day number (Python's     *)
(*     date.toordinal); strftime and strptime convert between the two.     *)
(*   - A Python dict is the sequence of its <<key, value>> items in        *)
(*     insertion order, keys distinct.                                     *)
(*   - A Python value that may be None is <<>> for None and <<v>> for the  *)
(*     number v.                                                           *)
(***************************************************************************)
EXTENDS Integers, Sequences, FiniteSets, TLC

VARIABLES
    disk,   \* the content of data.json
    now,    \* the system clock, as a day number
    args,   \* the inputs of the operation at hand
    ret,    \* what the operation returned
    pc,     \* "call" before the operation, "return" after it
    hist    \* what has happened so far: the runs made, the clock's course

vars == <<disk, now, args, ret, pc, hist>>

None == <<>>
Some(v) == <<v>>

Abs(x) == IF x < 0 THEN 0 - x ELSE x

---------------------------------------------------------------------------
(* Calendar: datetime.strptime(s, '%Y-%m-%d') and strftime('%Y-%m-%d').    *)

IsLeap(y) == (y % 4 = 0) /\ ((y % 100 # 0) \/ (y % 400 = 0))

DaysInMonth(y, m) ==
    IF m = 2 THEN (IF IsLeap(y) THEN 29 ELSE 28)
    ELSE IF m \in {4, 6, 9, 11} THEN 30 ELSE 31

DaysBeforeYear(y) ==
    (y - 1) * 365 + ((y - 1) \div 4) - ((y - 1) \div 100) + ((y - 1) \div 400)

RECURSIVE DaysBeforeMonth(_, _)
DaysBeforeMonth(y, m) ==
    IF m = 1 THEN 0 ELSE DaysBeforeMonth(y, m - 1) + DaysInMonth(y, m - 1)

\* strptime(date_str, '%Y-%m-%d'), as the day number of the parsed date
strptime(s) == DaysBeforeYear(s[1]) + DaysBeforeMonth(s[1], s[2]) + s[3]

\* the years the model's clock and samples lie in
Years == 2023 .. 2026

\* datetime.strftime('%Y-%m-%d') of the day numbered n
strftime(n) ==
    LET y == CHOOSE yy \in Years :
                 DaysBeforeYear(yy) < n /\ n <= DaysBeforeYear(yy + 1)
        r == n - DaysBeforeYear(y)
        m == CHOOSE mm \in 1 .. 12 :
                 /\ DaysBeforeMonth(y, mm) < r
                 /\ r <= DaysBeforeMonth(y, mm) + DaysInMonth(y, mm)
    IN  <<y, m, r - DaysBeforeMonth(y, m)>>

\* Python's < on two 'YYYY-MM-DD' strings
StrLess(a, b) ==
    \/ a[1] < b[1]
    \/ a[1] = b[1] /\ a[2] < b[2]
    \/ a[1] = b[1] /\ a[2] = b[2] /\ a[3] < b[3]

---------------------------------------------------------------------------
(* Python dict, in insertion order.                                        *)

Keys(d) == {d[i][1] : i \in DOMAIN d}

Has(d, k) == \E i \in DOMAIN d : d[i][1] = k

Get(d, k) == d[CHOOSE i \in DOMAIN d : d[i][1] = k][2]

\* d[k] = v: a key already present keeps its place
Put(d, k, v) ==
    IF Has(d, k)
    THEN [i \in DOMAIN d |-> IF d[i][1] = k THEN <<k, v>> ELSE d[i]]
    ELSE Append(d, <<k, v>>)

\* the mutant of sorted: the keys in insertion order
RECURSIVE KeysInOrder(_)
KeysInOrder(d) ==
    IF d = <<>> THEN <<>> ELSE <<d[1][1]>> \o KeysInOrder(Tail(d))

RECURSIVE SortedSet(_)
SortedSet(S) ==
    IF S = {} THEN <<>>
    ELSE LET least == CHOOSE x \in S : \A y \in S : x = y \/ StrLess(x, y)
         IN  <<least>> \o SortedSet(S \ {least})

\* sorted(d.keys())
sorted(d) == SortedSet(Keys(d))

---------------------------------------------------------------------------
(* find_nearest_value and align_data.                                      *)

\* the scan of find_nearest_value from item i on, with the loop's variables
RECURSIVE ScanLastWins(_, _, _, _, _)
ScanLastWins(target, data_dict, i, min_diff, nearest_value) ==
    IF i > Len(data_dict) THEN nearest_value
    ELSE LET diff == Abs(target - strptime(data_dict[i][1]))
         IN  IF diff <= min_diff
             THEN ScanLastWins(target, data_dict, i + 1, diff,
                               Some(data_dict[i][2]))
             ELSE ScanLastWins(target, data_dict, i + 1, min_diff,
                               nearest_value)

RECURSIVE Scan(_, _, _, _, _)
Scan(target, data_dict, i, min_diff, nearest_value) ==
    IF i > Len(data_dict) THEN nearest_value
    ELSE LET diff == Abs(target - strptime(data_dict[i][1]))
         IN  IF diff < min_diff
             THEN Scan(target, data_dict, i + 1, diff, Some(data_dict[i][2]))
             ELSE Scan(target, data_dict, i + 1, min_diff, nearest_value)

\* the mutant of find_nearest_value: the tolerance taken exclusive
NearestExclusive(target_date, data_dict, max_days) ==
    IF data_dict = <<>> THEN None
    ELSE Scan(strptime(target_date), data_dict, 1, max_days, None)

find_nearest_value(target_date, data_dict, max_days) ==
    IF data_dict = <<>> THEN None
    ELSE Scan(strptime(target_date), data_dict, 1, max_days + 1, None)

\* the tolerance align_data passes to find_nearest_value
ToleranceDays == 3

\* one cell of an auxiliary column
AlignedCell(date, index) ==
    IF Has(index, date) THEN Some(Get(index, date))
    ELSE find_nearest_value(date, index, ToleranceDays)

align_data(btc_prices, fng_index, vix_index) ==
    LET all_dates == sorted(btc_prices)
    IN  [dates  |-> all_dates,
         prices |-> [i \in DOMAIN all_dates |-> Get(btc_prices, all_dates[i])],
         fng    |-> [i \in DOMAIN all_dates |->
                        AlignedCell(all_dates[i], fng_index)],
         vix    |-> [i \in DOMAIN all_dates |->
                        AlignedCell(all_dates[i], vix_index)]]

---------------------------------------------------------------------------
(* The alignment on its own: the three series are drawn, align_data is     *)
(* applied.                                                                *)

\* the first day of the window the series' samples lie in: 2024-02-28
FirstDay == 738944
\* the number of days in that window
NumDays == 5
\* the most samples of a reference series
MaxRef == 2
\* the most samples of the auxiliary series of the cell specification
MaxAux == 2

SampleDates == {strftime(FirstDay + i) : i \in 0 .. NumDays - 1}

PriceValues == {100, 101}
FngValues == {10, 20}
VixValues == {55}

\* the dicts of exactly n items with keys in K and values in V
RECURSIVE DictsOfLen(_, _, _)
DictsOfLen(K, V, n) ==
    IF n = 0 THEN {<<>>}
    ELSE UNION {{Append(d, <<k, v>>) : k \in K \ Keys(d), v \in V} :
                    d \in DictsOfLen(K, V, n - 1)}

DictsUpTo(K, V, n) == UNION {DictsOfLen(K, V, i) : i \in 0 .. n}

NoFile == [kind |-> "absent"]
NoHist == [runs |-> 0, mono |-> TRUE, fresh |-> TRUE]
NoRet == [dates |-> <<>>, prices |-> <<>>, fng |-> <<>>, vix |-> <<>>]

InitAlign ==
    /\ disk = NoFile
    /\ now = FirstDay
    /\ pc = "call"
    /\ ret = NoRet
    /\ hist = NoHist
    /\ \E b \in DictsUpTo(SampleDates, PriceValues, MaxRef),
          f \in DictsUpTo(SampleDates, FngValues, 1),
          v \in DictsUpTo(SampleDates, VixValues, 1) :
          args = [btc |-> b, fng |-> f, vix |-> v]

\* one reference date, and a richer auxiliary series in either column
InitCell ==
    /\ disk = NoFile
    /\ now = FirstDay
    /\ pc = "call"
    /\ ret = NoRet
    /\ hist = NoHist
    /\ \E b \in DictsOfLen(SampleDates, PriceValues, 1),
          f \in DictsUpTo(SampleDates, FngValues, MaxAux),
          inFng \in BOOLEAN :
          args = [btc |-> b,
                  fng |-> IF inFng THEN f ELSE <<>>,
                  vix |-> IF inFng THEN <<>> ELSE f]

CallAlign ==
    /\ pc = "call"
    /\ ret' = align_data(args.btc, args.fng, args.vix)
    /\ pc' = "return"
    /\ UNCHANGED <<disk, now, args, hist>>

NextAlign == CallAlign

SpecAlign == InitAlign /\ [][NextAlign]_vars
SpecCell == InitCell /\ [][NextAlign]_vars

---------------------------------------------------------------------------
(* Properties of the alignment.                                            *)

IsCell(c) == c = None \/ (Len(c) = 1 /\ c[1] \in Int)

\* C2: align_data returns four sequences whose common length is the number
\* of reference dates; dates is strictly increasing (as strings and as
\* days), prices[i] is the reference value at dates[i], and each auxiliary
\* sequence holds one entry, a number or None, per reference date.
C2_AlignedTableShape ==
    pc = "return" =>
        /\ Len(ret.dates) = Cardinality(Keys(args.btc))
        /\ Len(ret.prices) = Len(ret.dates)
        /\ Len(ret.fng) = Len(ret.dates)
        /\ Len(ret.vix) = Len(ret.dates)
        /\ {ret.dates[i] : i \in DOMAIN ret.dates} = Keys(args.btc)
        /\ \A i, j \in DOMAIN ret.dates :
               i < j => /\ StrLess(ret.dates[i], ret.dates[j])
                        /\ strptime(ret.dates[i]) < strptime(ret.dates[j])
        /\ \A i \in DOMAIN ret.dates :
               /\ ret.prices[i] = Get(args.btc, ret.dates[i])
               /\ IsCell(ret.fng[i])
               /\ IsCell(ret.vix[i])

\* two reference dates on either side of the end of February, inserted the
\* later one first, aligned against an empty and a one-sample series
C2_Witness ==
    /\ pc = "return"
    /\ Len(args.btc) = 2
    /\ args.btc[1][1] = <<2024, 3, 1>>
    /\ args.btc[2][1] = <<2024, 2, 29>>
    /\ args.btc[1][2] # args.btc[2][2]
    /\ args.fng = <<>>
    /\ args.vix # <<>>
    /\ ret.dates = <<<<2024, 2, 29>>, <<2024, 3, 1>>>>

\* the cell specification's reference date, auxiliary series and cell
CellDate == args.btc[1][1]
CellSeries == IF args.fng # <<>> THEN args.fng ELSE args.vix
CellValue == IF args.fng # <<>> THEN ret.fng[1] ELSE ret.vix[1]
OtherCellValue == IF args.fng # <<>> THEN ret.vix[1] ELSE ret.fng[1]

Dist(a, b) == Abs(strptime(a) - strptime(b))

\* the least distance of the reference date to a date of the series
MinDist ==
    CHOOSE m \in 0 .. NumDays :
        /\ \E i \in DOMAIN CellSeries : Dist(CellDate, CellSeries[i][1]) = m
        /\ \A i \in DOMAIN CellSeries : Dist(CellDate, CellSeries[i][1]) >= m

\* the places of the series at the least distance
Tied == {i \in DOMAIN CellSeries : Dist(CellDate, CellSeries[i][1]) = MinDist}

\* C3: the aligned cell is S[d] when d is a key of S; otherwise the value at
\* a date of S at the least distance to d when that distance is at most the
\* tolerance of 3 days, and None when it is 4 days or more (or S is empty).
C3_CellExactNearestOrNull ==
    pc = "return" =>
        /\ OtherCellValue = None
        /\ IF CellSeries = <<>> THEN CellValue = None
           ELSE IF Has(CellSeries, CellDate)
                THEN CellValue = Some(Get(CellSeries, CellDate))
           ELSE IF MinDist <= ToleranceDays
                THEN \E i \in Tied : CellValue = Some(CellSeries[i][2])
           ELSE MinDist >= ToleranceDays + 1 /\ CellValue = None

\* samples 4 and 3 days after the reference date, the farther one first: the
\* cell holds the one at exactly the tolerance
C3_Witness ==
    /\ pc = "return"
    /\ Len(CellSeries) = 2
    /\ Dist(CellDate, CellSeries[1][1]) = ToleranceDays + 1
    /\ Dist(CellDate, CellSeries[2][1]) = ToleranceDays
    /\ CellSeries[1][2] # CellSeries[2][2]
    /\ CellValue = Some(CellSeries[2][2])

\* a sample only at tolerance + 1 days
C3_WitnessNull ==
    /\ pc = "return"
    /\ Len(CellSeries) = 1
    /\ Dist(CellDate, CellSeries[1][1]) = ToleranceDays + 1
    /\ CellValue = None

\* no exact match, and two dates of the series at the least distance, which
\* is within the tolerance
TieCase ==
    /\ pc = "return"
    /\ CellSeries # <<>>
    /\ ~Has(CellSeries, CellDate)
    /\ MinDist <= ToleranceDays
    /\ Cardinality(Tied) = 2

EarliestTied ==
    CHOOSE i \in Tied : \A j \in Tied :
        i = j \/ StrLess(CellSeries[i][1], CellSeries[j][1])

RECURSIVE Reverse(_)
Reverse(s) == IF s = <<>> THEN <<>> ELSE Append(Reverse(Tail(s)), s[1])

\* C10 as stated: on a tie the cell holds the value of the earliest tied
\* date, and the series with its items in the opposite order gives the same
\* cell.
C10_EarliestTiedDateWins ==
    TieCase =>
        /\ CellValue = Some(CellSeries[EarliestTied][2])
        /\ AlignedCell(CellDate, Reverse(CellSeries)) = CellValue

FirstTied == CHOOSE i \in Tied : \A j \in Tied : i <= j

\* C10 amended: on a tie the cell holds the value of the tied date that
\* comes first in the series' iteration (insertion) order.
C10_FirstEncounteredTiedDateWins ==
    TieCase => CellValue = Some(CellSeries[FirstTied][2])

\* the day after was inserted before the day before, with another value: the
\* cell holds the later date's value
C10_Witness ==
    /\ TieCase
    /\ StrLess(CellSeries[2][1], CellSeries[1][1])
    /\ CellSeries[1][2] # CellSeries[2][2]
    /\ CellValue = Some(CellSeries[1][2])

---------------------------------------------------------------------------
(* JSON values, as json.load gives them to Python: a value is tagged with  *)
(* its type and carries its content in a field of that type's own: a       *)
(* dict the Python dict of its items, a list the sequence of its elements. *)

PyNone == [t |-> "null"]
JNum(n) == [t |-> "num", n |-> n]
JStr(x) == [t |-> "str", s |-> x]
JList(x) == [t |-> "list", v |-> x]
JDict(items) == [t |-> "dict", items |-> items]

\* bool(j)
Truthy(j) ==
    CASE j.t = "null" -> FALSE
      [] j.t = "num"  -> j.n # 0
      [] j.t = "str"  -> j.s # ""
      [] j.t = "list" -> j.v # <<>>
      [] j.t = "dict" -> j.items # <<>>

\* load_existing_data: the parsed file; None when there is no file or
\* json.load raises
load_existing_data(file) ==
    IF file.kind = "json" THEN file.v ELSE PyNone

---------------------------------------------------------------------------
(* update_pcr_history. A result is [raised, pcr_dates, pcr_values]; raised *)
(* stands for the TypeError, AttributeError or IndexError that Python      *)
(* raises on a value of the wrong type, which nothing catches.             *)

\* the window of the rolling history (len(pcr_dates) > 365, [-365:])
PcrMaxLen == 365

Raised == [raised |-> TRUE, pcr_dates |-> PyNone, pcr_values |-> PyNone]
Returned(d, v) == [raised |-> FALSE, pcr_dates |-> d, pcr_values |-> v]

\* existing_data and 'pcr_dates' in existing_data and 'pcr_index' in
\* existing_data. A number has no "in" (TypeError); the strings and lists of
\* the model hold neither key.
HasHistory(existing_data) ==
    /\ Truthy(existing_data)
    /\ existing_data.t = "dict"
    /\ Has(existing_data.items, "pcr_dates")
    /\ Has(existing_data.items, "pcr_index")

FirstIndex(seq, x) == CHOOSE i \in DOMAIN seq : seq[i] = x /\ \A j \in 1 .. i - 1 : seq[j] # x

\* the mutant of MergeSample: a date already recorded is appended again
MergeAlwaysAppend(pcr_dates, pcr_values, today_pcr, today) ==
    IF today_pcr = None THEN Returned(pcr_dates, pcr_values)
    ELSE IF pcr_dates.t # "list" \/ pcr_values.t # "list" THEN Raised
    ELSE Returned(JList(Append(pcr_dates.v, today)),
                  JList(Append(pcr_values.v, today_pcr[1])))

\* the mutant of MergeSample: a date already recorded keeps its old value
MergeKeepsOld(pcr_dates, pcr_values, today_pcr, today) ==
    IF today_pcr = None THEN Returned(pcr_dates, pcr_values)
    ELSE IF pcr_dates.t # "list" \/ pcr_values.t # "list" THEN Raised
    ELSE IF \A i \in DOMAIN pcr_dates.v : pcr_dates.v[i] # today
         THEN Returned(JList(Append(pcr_dates.v, today)),
                       JList(Append(pcr_values.v, today_pcr[1])))
         ELSE Returned(pcr_dates, pcr_values)

\* "if today_pcr is not None: ..." of update_pcr_history
MergeSample(pcr_dates, pcr_values, today_pcr, today) ==
    IF today_pcr = None THEN Returned(pcr_dates, pcr_values)
    \* today not in pcr_dates: a number and None have no "in"
    ELSE IF pcr_dates.t \in {"num", "null"} THEN Raised
    \* today is in none of the model's strings, and a str has no append
    ELSE IF pcr_dates.t # "list" THEN Raised
    ELSE IF \A i \in DOMAIN pcr_dates.v : pcr_dates.v[i] # today
         THEN \* pcr_dates.append(today); pcr_values.append(today_pcr)
              IF pcr_values.t # "list" THEN Raised
              ELSE Returned(JList(Append(pcr_dates.v, today)),
                            JList(Append(pcr_values.v, today_pcr[1])))
         ELSE \* idx = pcr_dates.index(today); pcr_values[idx] = today_pcr
              LET idx == FirstIndex(pcr_dates.v, today)
              IN  IF pcr_values.t # "list" \/ idx > Len(pcr_values.v)
                  THEN Raised
                  ELSE Returned(pcr_dates,
                                JList([pcr_values.v EXCEPT ![idx] = today_pcr[1]]))

\* the mutant of KeepLast: the first n elements
KeepFirst(seq, n) == IF Len(seq) <= n THEN seq ELSE SubSeq(seq, 1, n)

\* seq[-n:]
KeepLast(seq, n) ==
    IF Len(seq) <= n THEN seq ELSE SubSeq(seq, Len(seq) - n + 1, Len(seq))

\* "if len(pcr_dates) > 365: ..." of update_pcr_history
TruncateHistory(pcr_dates, pcr_values) ==
    \* len of a number or of None is a TypeError
    IF pcr_dates.t \in {"num", "null"} THEN Raised
    \* the model's strings are shorter than the window
    ELSE IF pcr_dates.t # "list" \/ Len(pcr_dates.v) <= PcrMaxLen
         THEN Returned(pcr_dates, pcr_values)
    \* a number and None cannot be sliced
    ELSE IF pcr_values.t \in {"num", "null"} THEN Raised
    ELSE Returned(JList(KeepLast(pcr_dates.v, PcrMaxLen)),
                  IF pcr_values.t = "list"
                  THEN JList(KeepLast(pcr_values.v, PcrMaxLen))
                  ELSE pcr_values)

\* update_pcr_history(existing_data, today_pcr), with datetime.now() as clock
update_pcr_history(existing_data, today_pcr, clock) ==
    LET today == strftime(clock)
    IN  IF Truthy(existing_data) /\ existing_data.t = "num" THEN Raised
        ELSE LET has == HasHistory(existing_data)
                 pcr_dates == IF has THEN Get(existing_data.items, "pcr_dates")
                              ELSE JList(<<>>)
                 pcr_values == IF has THEN Get(existing_data.items, "pcr_index")
                               ELSE JList(<<>>)
                 merged == MergeSample(pcr_dates, pcr_values, today_pcr, today)
             IN  IF merged.raised THEN Raised
                 ELSE TruncateHistory(merged.pcr_dates, merged.pcr_values)

---------------------------------------------------------------------------
(* The four sources. A response is what the HTTP call (or yfinance) gave:  *)
(* status "error" for an exception of requests, raise_for_status or        *)
(* response.json(); otherwise the payload, whose samples are <<day, value>>*)
(* (the timestamp at day granularity, the value at its stored precision).  *)

\* the loop over the payload's items: date = strftime(timestamp), d[date] = value
RECURSIVE BuildSeries(_, _)
BuildSeries(items, d) ==
    IF items = <<>> THEN d
    ELSE BuildSeries(Tail(items), Put(d, strftime(items[1][1]), items[1][2]))

\* fetch_bitcoin_price catches nothing, the KeyError of data['prices'] on a
\* payload without 'prices' included: [raised, v]
fetch_bitcoin_price(resp) ==
    IF resp.status = "error" \/ ~resp.keyed
    THEN [raised |-> TRUE, v |-> <<>>]
    ELSE [raised |-> FALSE, v |-> BuildSeries(resp.items, <<>>)]

\* fetch_fear_greed: {} on any exception, and when the payload has no 'data'
fetch_fear_greed(resp) ==
    IF resp.status = "error" THEN <<>>
    ELSE IF resp.keyed THEN BuildSeries(resp.items, <<>>) ELSE <<>>

\* fetch_deribit_dvol: {} on any exception, and when the payload has no
\* 'result' with 'data'
fetch_deribit_dvol(resp) ==
    IF resp.status = "error" THEN <<>>
    ELSE IF resp.keyed THEN BuildSeries(resp.items, <<>>) ELSE <<>>

\* the open interest summed over the expirations whose chain could be read
RECURSIVE SumOI(_, _)
SumOI(chains, side) ==
    IF chains = <<>> THEN 0
    ELSE (IF chains[1].ok THEN chains[1][side] ELSE 0) + SumOI(Tail(chains), side)

\* round(put / call, 4), in units of 0.0001
Round4(put, call) == (2 * 10000 * put + call) \div (2 * call)

\* fetch_ibit_put_call_ratio: None on any exception, without expirations and
\* when the calls' open interest is 0
fetch_ibit_put_call_ratio(resp) ==
    IF resp.status = "error" THEN None
    ELSE IF resp.chains = <<>> THEN None
    ELSE LET total_put_oi == SumOI(resp.chains, "put_oi")
             total_call_oi == SumOI(resp.chains, "call_oi")
         IN  IF total_call_oi = 0 THEN None
             ELSE Some(Round4(total_put_oi, total_call_oi))

---------------------------------------------------------------------------
(* main: one run over the file data.json.                                  *)

\* the dict main dumps
Snapshot(table, pcr_dates, pcr_values, clock) ==
    JDict(<< <<"dates", JList(table.dates)>>,
             <<"btc_prices", JList(table.prices)>>,
             <<"fng_index", JList(table.fng)>>,
             <<"vix_index", JList(table.vix)>>,
             <<"pcr_dates", pcr_dates>>,
             <<"pcr_index", pcr_values>>,
             <<"last_updated", [t |-> "time", day |-> clock]>> >>)

\* the mutant of PriceMissing: an empty price series passes
PriceNeverMissing(btc_prices) == FALSE

\* "if not btc_prices"
PriceMissing(btc_prices) == btc_prices = <<>>

\* main() on the file as it is, at the clock's day, with the four responses:
\* how the run ended, whether data.json was opened for writing, the file
\* after the run, and the series the sources gave
main(file, clock, env) ==
    LET existing_data == load_existing_data(file)
        price == fetch_bitcoin_price(env.price)
        btc_prices == price.v
        fng_index == fetch_fear_greed(env.fng)
        vix_index == fetch_deribit_dvol(env.vix)
        today_pcr == fetch_ibit_put_call_ratio(env.pcr)
        table == align_data(btc_prices, fng_index, vix_index)
        pcr == update_pcr_history(existing_data, today_pcr, clock)
        stopped(how) == [outcome |-> how, wrote |-> FALSE, file |-> file,
                         fng_index |-> <<>>, vix_index |-> <<>>,
                         today_pcr |-> None]
    IN  IF price.raised THEN stopped("raised")
        ELSE IF PriceMissing(btc_prices) THEN stopped("halted")
        ELSE IF pcr.raised
             THEN [stopped("raised") EXCEPT !.fng_index = fng_index,
                                            !.vix_index = vix_index,
                                            !.today_pcr = today_pcr]
        ELSE [outcome |-> "done", wrote |-> TRUE,
              file |-> [kind |-> "json",
                        v |-> Snapshot(table, pcr.pcr_dates, pcr.pcr_values,
                                       clock)],
              fng_index |-> fng_index, vix_index |-> vix_index,
              today_pcr |-> today_pcr]

\* a run of the program, start to end
Run ==
    /\ pc = "call"
    /\ LET r == main(disk, now, args)
       IN  /\ disk' = r.file
           /\ ret' = [outcome |-> r.outcome, wrote |-> r.wrote,
                      before |-> disk, fng_index |-> r.fng_index,
                      vix_index |-> r.vix_index, today_pcr |-> r.today_pcr]
    /\ pc' = "return"
    /\ hist' = [hist EXCEPT !.runs = @ + 1]
    /\ UNCHANGED <<now, args>>

NotRun == [outcome |-> "none"]

---------------------------------------------------------------------------
(* One run of main from any file and any answers of the four sources.      *)

Failed == [status |-> "error"]
Series(keyed, items) == [status |-> "ok", keyed |-> keyed, items |-> items]
Options(chains) == [status |-> "ok", chains |-> chains]
Chain(ok, put, call) == [ok |-> ok, put_oi |-> put, call_oi |-> call]

PriceResponses ==
    {Failed,
     Series(FALSE, <<>>),
     Series(TRUE, <<>>),
     Series(TRUE, <<<<FirstDay + 1, 100>>>>),
     Series(TRUE, <<<<FirstDay + 4, 101>>, <<FirstDay, 100>>,
                    <<FirstDay + 4, 102>>>>)}

FngResponses ==
    {Failed,
     Series(FALSE, <<>>),
     Series(TRUE, <<<<FirstDay + 1, 10>>>>),
     Series(TRUE, <<<<FirstDay + 3, 20>>, <<FirstDay + 2, 10>>>>)}

VixResponses ==
    {Failed,
     Series(TRUE, <<<<FirstDay, 55>>>>)}

PcrResponses ==
    {Failed,
     Options(<<>>),
     Options(<<Chain(TRUE, 3, 0)>>),
     Options(<<Chain(TRUE, 1, 4), Chain(FALSE, 0, 0), Chain(TRUE, 1, 0)>>),
     Options(<<Chain(TRUE, 7, 10)>>)}

Responses ==
    [price : PriceResponses, fng : FngResponses, vix : VixResponses,
     pcr : PcrResponses]

JsonFile(j) == [kind |-> "json", v |-> j]

\* a snapshot as main writes it, with the given rolling history
WrittenFile(pcr_dates, pcr_values, clock) ==
    JsonFile(Snapshot(align_data(<<<<strftime(clock), 100>>>>, <<>>, <<>>),
                      JList(pcr_dates), JList(pcr_values), clock))

\* a dict with only the two history keys
HistoryOnly(pcr_dates, pcr_values) ==
    JsonFile(JDict(<< <<"pcr_dates", pcr_dates>>, <<"pcr_index", pcr_values>> >>))

Day1 == strftime(FirstDay + 1)
Day2 == strftime(FirstDay + 2)

\* files main wrote, or could have written
SoundFiles ==
    {WrittenFile(<<>>, <<>>, FirstDay),
     WrittenFile(<<Day1>>, <<5000>>, FirstDay + 1),
     WrittenFile(<<Day1, Day2>>, <<5000, 7000>>, FirstDay + 2)}

\* no file, and files json.load raises on
UnreadableFiles == {NoFile, [kind |-> "invalid"]}

\* valid JSON that is no snapshot, or whose history keys are missing
NoHistoryFiles ==
    {JsonFile(PyNone), JsonFile(JNum(0)), JsonFile(JNum(5)),
     JsonFile(JStr("abc")), JsonFile(JList(<<>>)), JsonFile(JDict(<<>>)),
     JsonFile(JDict(<< <<"pcr_dates", JList(<<Day1>>)>> >>)),
     JsonFile(JDict(<< <<"pcr_index", JList(<<5000>>)>> >>))}

\* valid JSON whose history is not two sequences
NotSequenceFiles ==
    {HistoryOnly(JNum(5), JList(<<>>)),
     HistoryOnly(JStr("abc"), JList(<<>>)),
     HistoryOnly(PyNone, PyNone),
     HistoryOnly(JList(<<Day1>>), JNum(5)),
     HistoryOnly(JList(<<Day2>>), PyNone),
     HistoryOnly(JList(<<>>), JStr("abc"))}

\* valid JSON whose two sequences differ in length
UnequalFiles ==
    {HistoryOnly(JList(<<Day1>>), JList(<<>>)),
     HistoryOnly(JList(<<Day2>>), JList(<<>>)),
     HistoryOnly(JList(<<>>), JList(<<5000>>)),
     HistoryOnly(JList(<<Day1, Day2>>), JList(<<5000>>))}

Files ==
    SoundFiles \cup UnreadableFiles \cup NoHistoryFiles
        \cup NotSequenceFiles \cup UnequalFiles

Init ==
    /\ disk \in Files
    /\ now \in {FirstDay + 1, FirstDay + 2}
    /\ args \in Responses
    /\ ret = NotRun
    /\ pc = "call"
    /\ hist = NoHist

Next == Run

Spec == Init /\ [][Next]_vars

---------------------------------------------------------------------------
(* Properties of one run.                                                  *)

\* fetch_bitcoin_price raises, or returns an empty mapping
PriceUnavailable ==
    \/ args.price.status = "error"
    \/ ~args.price.keyed
    \/ args.price.items = <<>>

\* C1: a run in which the price series cannot be obtained ends before
\* data.json is opened for writing, and the file is as it was before the
\* run, whatever the other three sources answered.
C1_NoPriceNoWrite ==
    (pc = "return" /\ PriceUnavailable) =>
        /\ ret.outcome \in {"raised", "halted"}
        /\ ~ret.wrote
        /\ disk = ret.before

\* an empty price series, the other three sources answering with data, over
\* a snapshot with a history: the run halted and the snapshot is still there
C1_Witness ==
    /\ pc = "return"
    /\ args.price.status = "ok" /\ args.price.items = <<>>
    /\ args.fng.status = "ok" /\ args.fng.items # <<>>
    /\ args.vix.status = "ok"
    /\ fetch_ibit_put_call_ratio(args.pcr) # None
    /\ ret.outcome = "halted"
    /\ ret.before \in SoundFiles
    /\ disk = ret.before
    /\ Get(disk.v.items, "pcr_dates").v # <<>>

\* a column of the written snapshot
Column(name) == Get(disk.v.items, name).v

AllNull(col) == \A i \in DOMAIN col : col[i] = None

SomeSourceFailed ==
    \/ args.fng.status = "error"
    \/ args.vix.status = "error"
    \/ args.pcr.status = "error"

\* C4: with the price series obtained, a failure of any of the other sources
\* does not stop the run: data.json is written, and a failed auxiliary
\* series is a column of None as long as dates.
C4_AuxFailuresNeverStopTheRun ==
    (pc = "return" /\ ~PriceUnavailable /\ SomeSourceFailed) =>
        /\ ret.outcome = "done"
        /\ ret.wrote
        /\ args.fng.status = "error" =>
               /\ Len(Column("fng_index")) = Len(Column("dates"))
               /\ AllNull(Column("fng_index"))
        /\ args.vix.status = "error" =>
               /\ Len(Column("vix_index")) = Len(Column("dates"))
               /\ AllNull(Column("vix_index"))

\* what C4 says, for the runs over no file, an unreadable file or a snapshot
\* that main wrote
C4_OverSoundSnapshot ==
    (pc = "return" /\ ret.before \in SoundFiles \cup UnreadableFiles)
        => C4_AuxFailuresNeverStopTheRun

\* the stored snapshot is unreadable or malformed
SnapshotCorrupt ==
    ret.before \in
        {[kind |-> "invalid"]} \cup NoHistoryFiles \cup NotSequenceFiles
            \cup UnequalFiles

\* C9: a run over an unreadable or malformed snapshot ends like a run over no
\* snapshot: it completes and writes a snapshot whose history starts from
\* empty sequences.
C9_CorruptSnapshotNeverFatal ==
    (pc = "return" /\ ~PriceUnavailable /\ SnapshotCorrupt) =>
        /\ ret.outcome = "done"
        /\ ret.wrote
        /\ Get(disk.v.items, "pcr_dates") =
               JList(IF ret.today_pcr = None THEN <<>> ELSE <<strftime(now)>>)
        /\ Get(disk.v.items, "pcr_index") =
               JList(IF ret.today_pcr = None THEN <<>> ELSE <<ret.today_pcr[1]>>)

\* the part of C9 the code keeps: a file json.load raises on, and valid JSON
\* without the two history keys that is not a non-zero number
C9_UnreadableOrKeylessIsFresh ==
    (/\ pc = "return"
     /\ ret.before \in ({[kind |-> "invalid"]} \cup NoHistoryFiles)
                            \ {JsonFile(JNum(5))})
        => C9_CorruptSnapshotNeverFatal

---------------------------------------------------------------------------
(* update_pcr_history on its own: a loaded snapshot, a sample and a clock  *)
(* are drawn, update_pcr_history is applied.                               *)

\* the first day of the rolling histories: 2024-01-01
HistoryFirstDay == 738886

\* the puts' open interest on a day, against 10 of the calls
DailyPut(day) == 4 + (day % 3)

\* the history of n consecutive days from first on, a sample each day
RegularDates(first, n) == [i \in 1 .. n |-> strftime(first + i - 1)]
RegularValues(first, n) ==
    [i \in 1 .. n |-> Round4(DailyPut(first + i - 1), 10)]

RegularFile(first, n) ==
    WrittenFile(RegularDates(first, n), RegularValues(first, n), first + n - 1)

\* the lengths of the loaded histories: short, and around the window
LoadedLengths ==
    {0, 1, 2, PcrMaxLen - 1, PcrMaxLen, PcrMaxLen + 1, PcrMaxLen + 2}

InitUpdate ==
    /\ disk = NoFile
    /\ pc = "call"
    /\ ret = NotRun
    /\ hist = NoHist
    /\ \E n \in LoadedLengths, loaded \in BOOLEAN,
          back \in 0 .. 2, sample \in {None, Some(5000), Some(7000)} :
          /\ args = [existing_data |->
                         IF loaded THEN RegularFile(HistoryFirstDay, n).v
                         ELSE PyNone,
                     today_pcr |-> sample]
          /\ now = HistoryFirstDay + n - back

CallUpdate ==
    /\ pc = "call"
    /\ ret' = update_pcr_history(args.existing_data, args.today_pcr, now)
    /\ pc' = "return"
    /\ UNCHANGED <<disk, now, args, hist>>

NextUpdate == CallUpdate

SpecUpdate == InitUpdate /\ [][NextUpdate]_vars

\* the history update_pcr_history found in existing_data
LoadedDates ==
    IF args.existing_data.t = "dict"
    THEN Get(args.existing_data.items, "pcr_dates").v ELSE <<>>
LoadedValues ==
    IF args.existing_data.t = "dict"
    THEN Get(args.existing_data.items, "pcr_index").v ELSE <<>>

\* C7 as stated: without a sample update_pcr_history returns the loaded
\* history as it is, also one longer than 365 entries.
C7_AbsentSampleReturnsLoaded ==
    (pc = "return" /\ args.today_pcr = None) =>
        /\ ~ret.raised
        /\ ret.pcr_dates = JList(LoadedDates)
        /\ ret.pcr_values = JList(LoadedValues)

\* seq is the last n elements of whole, in order
IsLastOf(seq, whole, n) ==
    /\ Len(seq) = n
    /\ \A i \in 1 .. n : seq[i] = whole[Len(whole) - n + i]

\* C7 amended: without a sample update_pcr_history returns the loaded
\* history as it is when it has at most 365 entries, and its last 365
\* entries when it has more.
C7_AbsentSampleReturnsLoadedWithinWindow ==
    (pc = "return" /\ args.today_pcr = None) =>
        /\ ~ret.raised
        /\ IF Len(LoadedDates) <= 365
           THEN /\ ret.pcr_dates = JList(LoadedDates)
                /\ ret.pcr_values = JList(LoadedValues)
           ELSE /\ IsLastOf(ret.pcr_dates.v, LoadedDates, 365)
                /\ IsLastOf(ret.pcr_values.v, LoadedValues, 365)

\* no sample and a loaded history of exactly 365 entries, returned as it is
C7_Witness ==
    /\ pc = "return"
    /\ args.today_pcr = None
    /\ Len(LoadedDates) = 365
    /\ ret.pcr_dates.v = LoadedDates
    /\ ret.pcr_values.v = LoadedValues

\* no sample and a loaded history of 367 entries, of which 365 are returned
C7_WitnessLong ==
    /\ pc = "return"
    /\ args.today_pcr = None
    /\ Len(LoadedDates) = 367
    /\ Len(ret.pcr_dates.v) = 365
    /\ ret.pcr_dates.v[1] = LoadedDates[3]

---------------------------------------------------------------------------
(* Runs of main one after the other, over the file the last run left. The  *)
(* first run finds no file, or a snapshot that daily runs from no file     *)
(* leave (RegularFile; SpecDaily reaches these). Between two runs the      *)
(* clock stays, moves on a day, or is set back a day.                      *)

\* the most runs in a behaviour
MaxRuns == 3

\* the lengths of the history the first run finds
SeedLengths == {0, 1, PcrMaxLen - 1, PcrMaxLen}

PriceOk == Series(TRUE, <<<<FirstDay, 100>>>>)

RunResponses ==
    [price : {PriceOk}, fng : {Failed},
     vix : {Series(TRUE, <<<<FirstDay, 55>>>>)},
     pcr : {Failed, Options(<<Chain(TRUE, 5, 10)>>),
            Options(<<Chain(TRUE, 7, 10)>>)}]

InitRuns ==
    /\ pc = "call"
    /\ ret = NotRun
    /\ args \in RunResponses
    /\ \E n \in SeedLengths :
          /\ disk = IF n = 0 THEN NoFile ELSE RegularFile(HistoryFirstDay, n)
          /\ hist = [NoHist EXCEPT !.fresh = (n = 0)]
          \* the day of the last sample, or the day after
          /\ now \in {HistoryFirstDay + n - 1, HistoryFirstDay + n}

\* the program is started again
NextRun ==
    /\ pc = "return"
    /\ hist.runs < MaxRuns
    /\ \E step \in {-1, 0, 1} :
          /\ now' = now + step
          /\ hist' = [hist EXCEPT !.mono = @ /\ step >= 0]
    /\ args' \in RunResponses
    /\ pc' = "call"
    /\ UNCHANGED <<disk, ret>>

NextRuns == Run \/ NextRun

SpecRuns == InitRuns /\ [][NextRuns]_vars

\* the rolling history in a file
FileDates(file) ==
    IF file.kind = "json" THEN Get(file.v.items, "pcr_dates").v ELSE <<>>
FileValues(file) ==
    IF file.kind = "json" THEN Get(file.v.items, "pcr_index").v ELSE <<>>

Increasing(dates) ==
    \A i \in 1 .. Len(dates) - 1 :
        /\ StrLess(dates[i], dates[i + 1])
        /\ strptime(dates[i]) < strptime(dates[i + 1])

OnePerDate(dates) == Cardinality({dates[i] : i \in DOMAIN dates}) = Len(dates)

\* C8 as stated: after any runs from no snapshot the persisted pcr_dates and
\* pcr_index have equal length, at most 365 entries, one entry per date, and
\* pcr_dates is strictly increasing.
C8_HistoryWellFormed ==
    hist.fresh =>
        /\ Len(FileDates(disk)) = Len(FileValues(disk))
        /\ Len(FileDates(disk)) <= 365
        /\ OnePerDate(FileDates(disk))
        /\ Increasing(FileDates(disk))

\* C8 amended: the persisted pcr_dates and pcr_index have equal length, at
\* most 365 entries and one entry per date; pcr_dates is strictly increasing
\* as long as the clock's date has not gone back between two runs.
C8_HistoryWellFormedUnderMonotoneClock ==
    /\ Len(FileDates(disk)) = Len(FileValues(disk))
    /\ Len(FileDates(disk)) <= 365
    /\ OnePerDate(FileDates(disk))
    /\ hist.mono => Increasing(FileDates(disk))

\* two runs on successive days, a sample each, from 364 entries: the second
\* run dropped the oldest entry
C8_Witness ==
    /\ pc = "return"
    /\ hist.mono
    /\ hist.runs = 2
    /\ ret.today_pcr # None
    /\ Len(FileDates(ret.before)) = 365
    /\ Len(FileDates(disk)) = 365
    /\ FileDates(disk)[1] = FileDates(ret.before)[2]
    /\ FileDates(disk)[365] = strftime(now)

\* the place of the clock's date in the history the run loaded, 0 if none
TodayIndex ==
    LET today == strftime(now)
        before == FileDates(ret.before)
        at == {i \in DOMAIN before : before[i] = today}
    IN  IF at = {} THEN 0 ELSE CHOOSE i \in at : \A j \in at : i <= j

\* the run had a sample and its date was in the history it loaded
SameDateCase ==
    /\ pc = "return"
    /\ ret.outcome = "done"
    /\ ret.today_pcr # None
    /\ TodayIndex # 0

\* C5: a sample whose date is already in the history leaves the length and
\* pcr_dates as they were, replaces the value at that date's place and
\* leaves every other value.
C5_SameDateReplacesInPlace ==
    SameDateCase =>
        LET idx == TodayIndex
            before == FileValues(ret.before)
            after == FileValues(disk)
        IN  /\ FileDates(disk) = FileDates(ret.before)
            /\ Len(after) = Len(before)
            /\ \A i \in DOMAIN after :
                   after[i] = IF i = idx THEN ret.today_pcr[1] ELSE before[i]

\* a second run on the day of the run before it, with another value
C5_Witness ==
    /\ SameDateCase
    /\ hist.runs >= 2
    /\ FileValues(ret.before)[TodayIndex] # ret.today_pcr[1]
    /\ FileValues(disk)[TodayIndex] = ret.today_pcr[1]
    /\ Len(FileDates(disk)) = Len(FileDates(ret.before))

\* a run dated before the last entry of a full history: the value in the
\* middle is replaced
C5_WitnessInside ==
    /\ SameDateCase
    /\ Len(FileDates(ret.before)) = 365
    /\ TodayIndex < 365
    /\ FileValues(ret.before)[TodayIndex] # ret.today_pcr[1]
    /\ FileValues(disk)[TodayIndex] = ret.today_pcr[1]

---------------------------------------------------------------------------
(* A run a day, with a sample each day, from no file.                      *)

\* the days run beyond the window
ExtraDays == 10

DailyResponses(day) ==
    [price |-> PriceOk, fng |-> Failed, vix |-> Failed,
     pcr |-> Options(<<Chain(TRUE, DailyPut(day), 10)>>)]

InitDaily ==
    /\ disk = NoFile
    /\ now \in {HistoryFirstDay, HistoryFirstDay + 1}
    /\ args = DailyResponses(now)
    /\ ret = NotRun
    /\ pc = "call"
    /\ hist = NoHist

NextDay ==
    /\ pc = "return"
    /\ hist.runs < PcrMaxLen + ExtraDays
    /\ now' = now + 1
    /\ args' = DailyResponses(now')
    /\ pc' = "call"
    /\ UNCHANGED <<disk, ret, hist>>

NextDaily == Run \/ NextDay

SpecDaily == InitDaily /\ [][NextDaily]_vars

\* C6: after n daily runs from an empty history, a sample each, the history
\* holds the last min(n, 365) days in order with their values; after 365 + 10
\* runs it has exactly 365 entries, the 10 oldest dropped.
C6_DailyRunsKeepLatestWindow ==
    pc = "return" =>
        LET n == hist.runs
            k == IF n <= 365 THEN n ELSE 365
        IN  /\ Len(FileDates(disk)) = k
            /\ Len(FileValues(disk)) = k
            /\ \A i \in 1 .. k :
                   /\ FileDates(disk)[i] = strftime(now - k + i)
                   /\ FileValues(disk)[i] =
                          (10000 * (4 + ((now - k + i) % 3))) \div 10

\* the 375th daily run: 365 entries, from the 11th day to the last
C6_Witness ==
    /\ pc = "return"
    /\ hist.runs = 365 + 10
    /\ Len(FileDates(disk)) = 365
    /\ FileDates(disk)[1] = strftime(now - hist.runs + 1 + 10)
    /\ FileDates(disk)[365] = strftime(now)

=============================================================================
